---- MODULE Spec2Model ----
(***************************************************************************)
(* Model of DS_coding_challenge.py: an ARMA(1,1) example series, its PAA   *)
(* aggregation, normalisation and SAX encoding, and the GUI event loop     *)
(* that drives them.                                                       *)
(*                                                                         *)
(* Numbers.  The raw series is held in halves (x_t = eta_t + 0.5 eta_{t-1} *)
(* is stored as 2 eta_t + eta_{t-1}).  A mean is the exact rational        *)
(* [s, c] = s / c.  A normalised value is [nan, num, r, q], NaN or the     *)
(* exact real num * sqrt(r) / sqrt(q).  Breakpoints are in hundredths.     *)
(***************************************************************************)
EXTENDS Integers, Sequences, FiniteSets, TLC

VARIABLES rng,        \* state of numpy's global random generator
          loop,       \* "running", "closed" (window.close()) or "crashed"
          event,      \* the event of the last window.read()
          values,     \* the field texts a show_hist handler last read
          f, a, n,    \* the script's globals f, a (floats) and n
          x, x_SAX,   \* the script's globals x and x_SAX
          fig_agg,    \* the global fig_agg: the figure on the canvas
          popups,     \* the messages sg.popup_error has shown
          sax_call,   \* the produce_SAX_data call of the last event, if any
          iter,       \* number of loop iterations so far
          cpc, cres, cint,            \* interleaved make_timeseries calls
          paa_x, paa_f, paa_out,      \* reduce_PAA applied to an input
          sax_x, sax_a, sax_out       \* transform_to_SAX applied to an input

vars == <<rng, loop, event, values, f, a, n, x, x_SAX, fig_agg, popups,
          sax_call, iter, cpc, cres, cint, paa_x, paa_f, paa_out,
          sax_x, sax_a, sax_out>>

guiVars  == <<loop, event, values, f, a, n, x, x_SAX, fig_agg, popups,
              sax_call, iter>>
concVars == <<cpc, cres, cint>>
paaVars  == <<paa_x, paa_f, paa_out>>
saxVars  == <<sax_x, sax_a, sax_out>>

----------------------------------------------------------------------------
(* Bounds *)

NPeriods == 6        \* n, the number of periods (100 in the source)
RngMod == 32         \* size of the random generator's state space
MaxIter == 3         \* loop iterations explored
MaxLen == 4          \* longest series given to reduce_PAA on its own
MaxVal == 2          \* largest sample given to reduce_PAA on its own
MaxAlphabet == 5     \* largest alphabet given to transform_to_SAX on its own
NumInvocations == 3  \* interleaved make_timeseries invocations

MaxSaxLen == 2       \* longest series given to transform_to_SAX on its own
FarOut == 400        \* a value beyond every breakpoint, in hundredths

(* Program constants *)

SeedValue == 12345

----------------------------------------------------------------------------
(* Arithmetic helpers *)

RECURSIVE Gcd(_, _)
Gcd(i, j) == IF j = 0 THEN i ELSE Gcd(j, i % j)

Lcm(i, j) == (i * j) \div Gcd(i, j)

RECURSIVE SumSeq(_)
SumSeq(s) == IF s = <<>> THEN 0 ELSE Head(s) + SumSeq(Tail(s))

RECURSIVE LcmSeq(_)
LcmSeq(s) == IF s = <<>> THEN 1 ELSE Lcm(Head(s), LcmSeq(Tail(s)))

\* the elements of a finite set of integers in ascending order
RECURSIVE SortedSeq(_)
SortedSeq(S) ==
  IF S = {} THEN <<>>
  ELSE LET lo == CHOOSE i \in S : \A j \in S : i <= j
       IN  <<lo>> \o SortedSeq(S \ {lo})

----------------------------------------------------------------------------
(* make_timeseries *)

\* numpy's generator (a Mersenne Twister) advances deterministically from
\* its state; a small congruential generator stands for it, the samples
\* being a function of the state alone
rng_next(s) == (5 * s + 3) % RngMod

\* one standard-normal sample, read off the advanced state
rng_sample(s) == ((rng_next(s) \div 4) % 5) - 2

\* np.random.seed(seed): the state becomes a function of the seed alone
np_random_seed_noop(s, seed) == s

np_random_seed(s, seed) == seed % RngMod

\* np.random.standard_normal(k): k samples and the state after them
RECURSIVE standard_normal(_, _)
standard_normal(s, k) ==
  IF k = 0 THEN [eta |-> <<>>, rng |-> s]
  ELSE LET rest == standard_normal(rng_next(s), k - 1)
       IN  [eta |-> <<rng_sample(s)>> \o rest.eta, rng |-> rest.rng]

\* ArmaProcess([1, -0.0], [1, 0.5]).generate_sample(k), in halves
generate_sample(s, k) ==
  LET d == standard_normal(s, k)
  IN  [x |-> [t \in 1..k |->
                2 * d.eta[t] + (IF t = 1 THEN 0 ELSE d.eta[t - 1])],
       rng |-> d.rng]

make_timeseries_unseeded(s) ==
  LET g == generate_sample(s, NPeriods)
  IN  [x |-> g.x, n |-> NPeriods, rng |-> g.rng]

make_timeseries(s) ==
  LET g == generate_sample(np_random_seed(s, SeedValue), NPeriods)
  IN  [x |-> g.x, n |-> NPeriods, rng |-> g.rng]

----------------------------------------------------------------------------
(* reduce_PAA *)

\* np.floor(i / f) for the 0-based index i
agg_key_ceil(i, ff) == (i + ff - 1) \div ff

agg_key_one_based(i, ff) == (i + 1) \div ff

agg_key(i, ff) == i \div ff

\* x.groupby(agg_index).mean(): one mean per distinct key, keys ascending
reduce_PAA(xs, ff) ==
  LET agg_index == [i \in 1..Len(xs) |-> agg_key(i - 1, ff)]
      keys == SortedSeq({agg_index[i] : i \in 1..Len(xs)})
      members(k) == {i \in 1..Len(xs) : agg_index[i] = k}
      total(k) == SumSeq([i \in 1..Len(xs) |->
                            IF agg_index[i] = k THEN xs[i] ELSE 0])
  IN  [g \in 1..Len(keys) |->
         [s |-> total(keys[g]), c |-> Cardinality(members(keys[g]))]]

----------------------------------------------------------------------------
(* normalize *)

NaN == [nan |-> TRUE, num |-> 0, r |-> 0, q |-> 0]

\* x.std(): the sample standard deviation divides by len - 1
std_ddof == 1

\* (x - x.mean()) / x.std() on a series of rationals [s, c]
normalize(xs) ==
  LET m == Len(xs)
      L == LcmSeq([k \in 1..m |-> xs[k].c])
      X == [k \in 1..m |-> xs[k].s * (L \div xs[k].c)]
      D == [k \in 1..m |-> m * X[k] - SumSeq(X)]
      Q == SumSeq([k \in 1..m |-> D[k] * D[k]])
      dof == m - std_ddof
  IN  [k \in 1..m |->
         IF dof <= 0 \/ Q = 0 THEN NaN
         ELSE [nan |-> FALSE, num |-> D[k], r |-> dof, q |-> Q]]

----------------------------------------------------------------------------
(* transform_to_SAX *)

\* norm.ppf(i / a) for i = 1..a-1, in hundredths
norm_ppf(aa) ==
  CASE aa = 1 -> <<>>
    [] aa = 2 -> <<0>>
    [] aa = 3 -> <<-43, 43>>
    [] aa = 4 -> <<-67, 0, 67>>
    [] aa = 5 -> <<-84, -25, 25, 84>>
    [] aa = 6 -> <<-97, -43, 0, 43, 97>>
    [] aa = 7 -> <<-107, -57, -18, 18, 57, 107>>
    [] aa = 8 -> <<-115, -67, -32, 0, 32, 67, 115>>
    [] aa = 9 -> <<-122, -76, -43, -14, 14, 43, 76, 122>>

\* bin(i)[2:]
RECURSIVE bin(_)
bin(i) == IF i < 2 THEN ToString(i) ELSE bin(i \div 2) \o ToString(i % 2)

NegInf == [inf |-> -1, b |-> 0]
PosInf == [inf |-> 1, b |-> 0]
Finite(b) == [inf |-> 0, b |-> b]

\* b / 100 < v.num * sqrt(v.r) / sqrt(v.q), for a value v that is not NaN
HundredthsLess(b, v) ==
  IF b < 0 /\ v.num >= 0 THEN TRUE
  ELSE IF b >= 0 /\ v.num <= 0 THEN FALSE
  ELSE IF b >= 0 THEN b * b * v.q < 10000 * v.num * v.num * v.r
  ELSE b * b * v.q > 10000 * v.num * v.num * v.r

\* edge < v
EdgeLess(edge, v) ==
  IF edge.inf = -1 THEN TRUE
  ELSE IF edge.inf = 1 THEN FALSE
  ELSE HundredthsLess(edge.b, v)

\* b / 100 <= v.num * sqrt(v.r) / sqrt(v.q), for a value v that is not NaN
HundredthsLeq(b, v) ==
  IF b < 0 /\ v.num >= 0 THEN TRUE
  ELSE IF b >= 0 /\ v.num <= 0 THEN b = 0 /\ v.num = 0
  ELSE IF b >= 0 THEN b * b * v.q <= 10000 * v.num * v.num * v.r
  ELSE b * b * v.q >= 10000 * v.num * v.num * v.r

\* bins.searchsorted(v, side="right"): the number of edges at or below v
searchsorted_side_right(bins, v) ==
  IF v.nan THEN Len(bins)
  ELSE Cardinality({j \in 1..Len(bins) :
                      \/ bins[j].inf = -1
                      \/ bins[j].inf = 0 /\ HundredthsLeq(bins[j].b, v)})

\* bins.searchsorted(v, side="left"): the number of edges below v
searchsorted(bins, v) ==
  IF v.nan THEN Len(bins)
  ELSE Cardinality({j \in 1..Len(bins) : EdgeLess(bins[j], v)})

\* the label of a value no interval holds
Missing == "NaN"

\* pd.cut(x, bins, labels = cat_names), intervals closed on the right
pd_cut(xs, bins, labels) ==
  [k \in 1..Len(xs) |->
     LET id == searchsorted(bins, xs[k])
     IN  IF xs[k].nan \/ id = Len(bins) \/ id = 0 THEN Missing
         ELSE labels[id]]

transform_to_SAX(xs, aa) ==
  LET breakpoints == norm_ppf(aa)
      cat_names == [i \in 1..aa |-> bin(i - 1)]
      bins == <<NegInf>> \o [i \in 1..Len(breakpoints) |->
                               Finite(breakpoints[i])] \o <<PosInf>>
  IN  pd_cut(xs, bins, cat_names)

----------------------------------------------------------------------------
(* produce_SAX_data *)

\* a mean [s, c] as the real s / c
AsReal(m) == [nan |-> FALSE, num |-> m.s, r |-> 1, q |-> m.c * m.c]

produce_SAX_data_skip_normalize(ff, aa, s) ==
  LET ts == make_timeseries(s)
      x_agg == reduce_PAA(ts.x, ff)
      x_agg_norm == [k \in 1..Len(x_agg) |-> AsReal(x_agg[k])]
  IN  [x |-> ts.x, x_SAX |-> transform_to_SAX(x_agg_norm, aa), n |-> ts.n,
       rng |-> ts.rng, x_agg |-> x_agg, x_agg_norm |-> x_agg_norm]

produce_SAX_data(ff, aa, s) ==
  LET ts == make_timeseries(s)
      x_agg == reduce_PAA(ts.x, ff)
      x_agg_norm == normalize(x_agg)
  IN  [x |-> ts.x, x_SAX |-> transform_to_SAX(x_agg_norm, aa), n |-> ts.n,
       rng |-> ts.rng, x_agg |-> x_agg, x_agg_norm |-> x_agg_norm]

----------------------------------------------------------------------------
(* The event loop *)

\* texts the user may leave in the fields edit_f and edit_a
FieldTexts ==
  {"", "abc", "2.5", "2.0", "0", "-1", "nan", "inf"}
    \cup {ToString(i) : i \in 1..(NPeriods + 1)}

\* a Python float in tenths, or nan, or inf
Num(t) == [kind |-> "num", t |-> t]
Unset == [kind |-> "unset", t |-> 0]

\* float(text): the parsed float, or kind "ValueError" when float() raises
float(text) ==
  IF text = "nan" THEN [kind |-> "nan", t |-> 0]
  ELSE IF text = "inf" THEN [kind |-> "inf", t |-> 0]
  ELSE IF text = "2.5" THEN Num(25)
  ELSE IF text = "2.0" THEN Num(20)
  ELSE IF text = "-1" THEN Num(-10)
  ELSE IF \E i \in 0..(NPeriods + 1) : text = ToString(i)
    THEN Num(10 * (CHOOSE i \in 0..(NPeriods + 1) : text = ToString(i)))
  ELSE [kind |-> "ValueError", t |-> 0]

\* int(v) of a finite float
int(v) == IF v.t >= 0 THEN v.t \div 10 ELSE -((-v.t) \div 10)

\* v < k and v > k for a float v and an integer k; nan compares False
float_lt(v, k) == v.kind = "num" /\ v.t < 10 * k
float_gt(v, k) == v.kind = "inf" \/ (v.kind = "num" /\ v.t > 10 * k)

\* v < 1 or v > n or v != int(v): "reject" when the condition is true,
\* "accept" when it is false, "ValueError" when int(nan) raises
range_check_no_upper(v, nn) ==
  IF float_lt(v, 1) THEN "reject"
  ELSE IF v.kind = "nan" THEN "ValueError"
  ELSE IF v.kind = "inf" THEN "reject"
  ELSE IF Num(10 * int(v)) # v THEN "reject"
  ELSE "accept"

range_check(v, nn) ==
  IF float_lt(v, 1) \/ float_gt(v, nn) THEN "reject"
  ELSE IF v.kind = "nan" THEN "ValueError"
  ELSE IF Num(10 * int(v)) # v THEN "reject"
  ELSE "accept"

MsgEnterFrame == "Please enter frame size"
MsgFrameRange == "Frame size has to be an integer between 1 and n."
MsgEnterAlphabet == "Please enter frame size"
MsgAlphabetRange == "Alphabet size has to be an integer between 1 and n."

DefaultF == 4
DefaultA == 5

\* sg.popup_error(msg); break, then window.close()
PopupAndBreak(msg, fv, av, nn, s) ==
  /\ popups' = Append(popups, msg)
  /\ loop' = "closed"
  /\ f' = fv /\ a' = av /\ n' = nn /\ rng' = s
  /\ sax_call' = <<>>
  /\ UNCHANGED <<x, x_SAX, fig_agg>>

\* int(nan) raises ValueError, which nothing catches
Uncaught(fv, av, nn, s) ==
  /\ loop' = "crashed"
  /\ f' = fv /\ a' = av /\ n' = nn /\ rng' = s
  /\ sax_call' = <<>>
  /\ UNCHANGED <<x, x_SAX, fig_agg, popups>>

\* event in (sg.WIN_CLOSED, 'Exit'): break
ExitEvent ==
  /\ loop = "running" /\ iter < MaxIter
  /\ \E ev \in {"Exit", "WIN_CLOSED"} : event' = ev
  /\ loop' = "closed"
  /\ iter' = iter + 1
  /\ sax_call' = <<>>
  /\ UNCHANGED <<rng, values, f, a, n, x, x_SAX, fig_agg, popups>>

\* event == 'show_time'
ShowTime ==
  /\ loop = "running" /\ iter < MaxIter
  /\ event' = "show_time"
  /\ LET ts == make_timeseries(rng)
     IN  x' = ts.x /\ rng' = ts.rng
  /\ fig_agg' = "ts_lineplot"
  /\ iter' = iter + 1
  /\ sax_call' = <<>>
  /\ UNCHANGED <<loop, values, f, a, n, x_SAX, popups>>

\* event == 'show_hist'
ShowHist ==
  /\ loop = "running" /\ iter < MaxIter
  /\ event' = "show_hist"
  /\ iter' = iter + 1
  /\ \E vf \in FieldTexts, va \in FieldTexts :
       LET ts == make_timeseries(rng)
           pf == float(vf)
           pa == float(va)
       IN  /\ values' = [edit_f |-> vf, edit_a |-> va]
           /\ IF pf.kind = "ValueError"
                THEN PopupAndBreak(MsgEnterFrame, Num(10 * DefaultF), a,
                                   ts.n, ts.rng)
              ELSE IF range_check(pf, ts.n) = "reject"
                THEN PopupAndBreak(MsgFrameRange, pf, a, ts.n, ts.rng)
              ELSE IF range_check(pf, ts.n) = "ValueError"
                THEN Uncaught(pf, a, ts.n, ts.rng)
              ELSE IF pa.kind = "ValueError"
                THEN PopupAndBreak(MsgEnterAlphabet, pf, Num(10 * DefaultA),
                                   ts.n, ts.rng)
              ELSE IF range_check(pa, ts.n) = "reject"
                THEN PopupAndBreak(MsgAlphabetRange, pf, pa, ts.n, ts.rng)
              ELSE IF range_check(pa, ts.n) = "ValueError"
                THEN Uncaught(pf, pa, ts.n, ts.rng)
              ELSE LET r == produce_SAX_data(int(pf), int(pa), ts.rng)
                   IN  /\ f' = pf /\ a' = pa
                       /\ x' = r.x /\ x_SAX' = r.x_SAX /\ n' = r.n
                       /\ rng' = r.rng
                       /\ fig_agg' = "histo"
                       /\ sax_call' = <<[f |-> int(pf), a |-> int(pa),
                                         x_agg |-> r.x_agg,
                                         x_agg_norm |-> r.x_agg_norm]>>
                       /\ UNCHANGED <<loop, popups>>

Procs == 1..NumInvocations

ConcIdle ==
  /\ cpc = [p \in Procs |-> "idle"]
  /\ cres = [p \in Procs |-> <<>>]
  /\ cint = [p \in Procs |-> FALSE]

PaaIdle == paa_x = <<>> /\ paa_f = 0 /\ paa_out = <<>>

SaxIdle == sax_x = <<>> /\ sax_a = 0 /\ sax_out = <<>>

GuiIdle ==
  /\ loop = "running" /\ event = "none"
  /\ values = [edit_f |-> "", edit_a |-> ""]
  /\ f = Unset /\ a = Unset /\ n = 0
  /\ x = <<>> /\ x_SAX = <<>>
  /\ fig_agg = "None"
  /\ popups = <<>>
  /\ sax_call = <<>>
  /\ iter = 0

\* the script reaches its loop with the generator seeded by the system
Init ==
  /\ rng \in 0..(RngMod - 1)
  /\ GuiIdle /\ ConcIdle /\ PaaIdle /\ SaxIdle

Next ==
  \/ ExitEvent /\ UNCHANGED <<concVars, paaVars, saxVars>>
  \/ ShowTime /\ UNCHANGED <<concVars, paaVars, saxVars>>
  \/ ShowHist /\ UNCHANGED <<concVars, paaVars, saxVars>>

Spec == Init /\ [][Next]_vars

----------------------------------------------------------------------------
(* Properties of the event loop and the pipeline *)

Ceil(i, j) == (i + j - 1) \div j

\* the text is a way of writing the integer i
EnteredInteger(text, i) == text = ToString(i) \/ (i = 2 /\ text = "2.0")

\* the text is an integer in [1, nn]
ValidEntry(text, nn) == \E i \in 1..nn : EnteredInteger(text, i)

Alphabet(aa) == {bin(i) : i \in 0..(aa - 1)}

\* the series drawn straight after seeding, and what the stages make of it
ReferenceSeries == generate_sample(SeedValue % RngMod, NPeriods).x

\* the elements of window k (from 0) of a series indexed from 0
Window(len, ff, k) ==
  {i \in 0..(len - 1) : k * ff <= i /\ i < (k + 1) * ff}

WindowSum(xs, ff, k) ==
  SumSeq([i \in 1..Len(xs) |->
            IF (i - 1) \in Window(Len(xs), ff, k) THEN xs[i] ELSE 0])

\* C1: for every valid (f, a), f = n included, the symbolic series has
\* ceil(n/f) elements and each is a member of the a-symbol alphabet; none
\* is left unclassified.
C1_EverySymbolClassified ==
  sax_call # <<>> =>
    /\ Len(x_SAX) = Ceil(n, sax_call[1].f)
    /\ \A k \in 1..Len(x_SAX) : x_SAX[k] \in Alphabet(sax_call[1].a)

\* C2: the SAX computation runs only with the integers the user entered,
\* both in [1, n]; a request with a missing, non-numeric, non-integral or
\* out-of-range field never reaches it, and a substituted default is never
\* passed on.
C2_OnlyValidatedArguments ==
  /\ sax_call # <<>> =>
       \E i \in 1..NPeriods, j \in 1..NPeriods :
         /\ EnteredInteger(values.edit_f, i)
         /\ EnteredInteger(values.edit_a, j)
         /\ sax_call[1].f = i /\ sax_call[1].a = j
  /\ (event = "show_hist"
        /\ ~(ValidEntry(values.edit_f, NPeriods)
               /\ ValidEntry(values.edit_a, NPeriods))) =>
       (sax_call = <<>> /\ loop # "running")

\* a request whose alphabet field did not parse: the default was
\* substituted and the computation did not run
C2_Witness ==
  /\ event = "show_hist" /\ values.edit_a = "abc"
  /\ ValidEntry(values.edit_f, NPeriods)
  /\ a = Num(10 * DefaultA)
  /\ sax_call = <<>>

NamesFrameSize(msg) ==
  msg \in {"Please enter frame size",
           "Frame size has to be an integer between 1 and n."}

NamesAlphabetSize(msg) ==
  msg \in {"Please enter alphabet size",
           "Alphabet size has to be an integer between 1 and n."}

\* C3: a validation failure's message names the parameter that caused it:
\* the frame size for the frame-size field, the alphabet size for the
\* alphabet-size field.
C3_MessageNamesParameter ==
  popups # <<>> =>
    IF ~ValidEntry(values.edit_f, NPeriods)
      THEN NamesFrameSize(popups[Len(popups)])
      ELSE NamesAlphabetSize(popups[Len(popups)])

\* C5: whatever happened before, make_timeseries returns the same series of
\* length n and produce_SAX_data(f, a) the same symbolic series for the same
\* (f, a).
C5_SequentialDeterminism ==
  /\ x # <<>> => (x = ReferenceSeries /\ Len(x) = NPeriods)
  /\ sax_call # <<>> =>
       x_SAX = transform_to_SAX(
                 normalize(reduce_PAA(ReferenceSeries, sax_call[1].f)),
                 sax_call[1].a)

\* a pipeline call made after an earlier event had drawn from the generator
C5_Witness == iter >= 2 /\ sax_call # <<>> /\ x_SAX # <<>>

C10_RejectionEndsLoop ==
  /\ (event = "show_hist"
        /\ ~(ValidEntry(values.edit_f, NPeriods)
               /\ ValidEntry(values.edit_a, NPeriods))) =>
       /\ Len(popups) = 1
       /\ loop = "closed"
       /\ sax_call = <<>>
       /\ ~ValidEntry(values.edit_f, NPeriods) =>
            popups[1] \in {MsgEnterFrame, MsgFrameRange}
  /\ (event = "show_hist"
        /\ ValidEntry(values.edit_f, NPeriods)
        /\ ValidEntry(values.edit_a, NPeriods)) => loop = "running"
  /\ event = "show_time" => loop = "running"

----------------------------------------------------------------------------
(* reduce_PAA applied to an arbitrary series *)

ExampleSeries == [i \in 1..10 |-> i]

PaaSeries == UNION {[1..len -> 0..MaxVal] : len \in 1..MaxLen}

InitPAA ==
  /\ rng = SeedValue % RngMod
  /\ GuiIdle /\ ConcIdle /\ SaxIdle
  /\ paa_out = <<>>
  /\ \/ paa_x \in PaaSeries /\ paa_f \in 1..MaxLen
     \/ paa_x = ExampleSeries /\ paa_f \in 1..Len(ExampleSeries)

ApplyPAA ==
  /\ paa_out = <<>>
  /\ paa_out' = reduce_PAA(paa_x, paa_f)
  /\ UNCHANGED <<rng, guiVars, concVars, saxVars, paa_x, paa_f>>

NextPAA == ApplyPAA

SpecPAA == InitPAA /\ [][NextPAA]_vars

\* C6: index i goes to window floor(i/f); window k is [k*f, min((k+1)*f, n))
\* and output k is the mean of exactly those elements, in window order; the
\* series 1..10 with f = 3 gives the means 2, 5, 8, 10.
C6_WindowMeans ==
  (paa_out # <<>> /\ paa_f <= Len(paa_x)) =>
    LET len == Len(paa_x)
    IN  /\ \A i \in 0..(len - 1) :
             /\ (i \div paa_f) + 1 \in DOMAIN paa_out
             /\ paa_f * (i \div paa_f) <= i
             /\ i < paa_f * ((i \div paa_f) + 1)
        /\ \A k \in 1..Len(paa_out) :
             LET lo == (k - 1) * paa_f
                 hi == IF k * paa_f < len THEN k * paa_f ELSE len
             IN  /\ lo < hi
                 /\ paa_out[k].c = hi - lo
                 /\ paa_out[k].s = SumSeq(SubSeq(paa_x, lo + 1, hi))
        /\ (paa_x = ExampleSeries /\ paa_f = 3) =>
             paa_out = <<[s |-> 6, c |-> 3], [s |-> 15, c |-> 3],
                         [s |-> 24, c |-> 3], [s |-> 10, c |-> 1]>>

\* the documented example, aggregated, with its shorter last window
C6_Witness ==
  /\ paa_x = ExampleSeries /\ paa_f = 3
  /\ Len(paa_out) = 4 /\ paa_out[4].c = 1

\* C7: for 1 <= f <= n the output of reduce_PAA has ceil(n/f) elements.
C7_OutputLength ==
  (paa_out # <<>> /\ 1 <= paa_f /\ paa_f <= Len(paa_x)) =>
    /\ Len(paa_out) * paa_f >= Len(paa_x)
    /\ (Len(paa_out) - 1) * paa_f < Len(paa_x)

\* an aggregated series whose frame size does not divide the length
C7_Witness ==
  /\ paa_out # <<>>
  /\ 1 < paa_f /\ paa_f < Len(paa_x)
  /\ Len(paa_x) % paa_f # 0

----------------------------------------------------------------------------
(* transform_to_SAX applied to arbitrary values *)

Hundredths(v) == [nan |-> FALSE, num |-> v, r |-> 1, q |-> 10000]

\* every breakpoint of the alphabets tried, its two neighbours, and two
\* values beyond all of them
SaxPoints ==
  {-FarOut, FarOut} \cup
    UNION {{norm_ppf(aa)[i] + d : i \in 1..(aa - 1), d \in -1..1} :
             aa \in 2..MaxAlphabet}

SaxValues == {NaN} \cup {Hundredths(v) : v \in SaxPoints}

InitSAX ==
  /\ rng = SeedValue % RngMod
  /\ GuiIdle /\ ConcIdle /\ PaaIdle
  /\ sax_out = <<>>
  /\ sax_a \in 1..MaxAlphabet
  /\ sax_x \in UNION {[1..len -> SaxValues] : len \in 1..MaxSaxLen}

ApplySAX ==
  /\ sax_out = <<>>
  /\ sax_out' = transform_to_SAX(sax_x, sax_a)
  /\ UNCHANGED <<rng, guiVars, concVars, paaVars, sax_x, sax_a>>

NextSAX == ApplySAX

SpecSAX == InitSAX /\ [][NextSAX]_vars

BinaryNames == <<"0", "1", "10", "11", "100", "101", "110", "111", "1000">>

\* C8: a finite value v gets the symbol of interval i iff
\* breakpoint[i-1] < v <= breakpoint[i], the outermost intervals open-ended;
\* a value equal to a breakpoint goes to the lower interval; the symbols are
\* the binary strings of 0..a-1 in interval order; a = 1 gives "0" always.
C8_RightClosedIntervals ==
  sax_out # <<>> =>
    LET bp == norm_ppf(sax_a)
        In(v, i) ==
          /\ (i = 1 \/ bp[i - 1] < v)
          /\ (i = sax_a \/ v <= bp[i])
    IN  /\ Len(sax_out) = Len(sax_x)
        /\ Len(bp) = sax_a - 1
        /\ \A i \in 1..(sax_a - 2) : bp[i] < bp[i + 1]
        /\ \A k \in 1..Len(sax_x) :
             ~sax_x[k].nan =>
               /\ \A i \in 1..sax_a :
                    In(sax_x[k].num, i) <=> sax_out[k] = BinaryNames[i]
               /\ \A i \in 1..(sax_a - 1) :
                    sax_x[k].num = bp[i] => sax_out[k] = BinaryNames[i]
               /\ sax_a = 1 => sax_out[k] = "0"

\* a value that sits exactly on an interior breakpoint has been encoded
C8_Witness ==
  /\ sax_out # <<>> /\ sax_a = 5
  /\ sax_x[1] = Hundredths(25)
  /\ sax_out[1] = "10"

----------------------------------------------------------------------------
(* make_timeseries invoked by several callers whose steps interleave *)

InitConc ==
  /\ rng \in 0..(RngMod - 1)
  /\ GuiIdle /\ ConcIdle /\ PaaIdle /\ SaxIdle

\* np.random.seed(12345)
CallSeed(p) ==
  /\ cpc[p] = "idle"
  /\ rng' = np_random_seed(rng, SeedValue)
  /\ cpc' = [cpc EXCEPT ![p] = "seeded"]
  /\ cres' = [cres EXCEPT ![p] = <<>>]
  /\ cint' = [cint EXCEPT ![p] = FALSE]
  /\ UNCHANGED <<guiVars, paaVars, saxVars>>

\* ArmaProcess(ar1, ma1).generate_sample(n)
CallDraw(p) ==
  /\ cpc[p] = "seeded"
  /\ LET g == generate_sample(rng, NPeriods)
     IN  /\ rng' = g.rng
         /\ cres' = [cres EXCEPT ![p] = g.x]
  /\ cpc' = [cpc EXCEPT ![p] = "done"]
  /\ cint' = [q \in Procs |-> IF q # p /\ cpc[q] = "seeded"
                                THEN TRUE ELSE cint[q]]
  /\ UNCHANGED <<guiVars, paaVars, saxVars>>

\* return x, n; the caller may invoke again
CallReturn(p) ==
  /\ cpc[p] = "done"
  /\ cpc' = [cpc EXCEPT ![p] = "idle"]
  /\ UNCHANGED <<rng, cres, cint, guiVars, paaVars, saxVars>>

NextConc ==
  \E p \in Procs : CallSeed(p) \/ CallDraw(p) \/ CallReturn(p)

SpecConc == InitConc /\ [][NextConc]_vars

====
